---- MODULE Spec2Model ----
(***************************************************************************)
(* Model of session/txn.go: TxnState (the lazy, statement-buffered         *)
(* transaction wrapper of a session), txnFuture, and the statement         *)
(* commit/rollback protocol of session.                                    *)
(*                                                                         *)
(* Encoding.                                                               *)
(*   - A Go reference that may be nil is a sequence of length <= 1:        *)
(*     <<>> is nil, <<obj>> is a reference to obj.                         *)
(*   - A []byte value is a sequence of bytes; <<>> is the empty value,     *)
(*     which the overlay uses as the deletion marker.                      *)
(*   - A map is a function whose DOMAIN is the set of keys present.        *)
(*   - An error is a record [msg, at]; NoErr is the nil error.             *)
(*   - The underlying kv.Transaction, the kv.Storage, the binlog prewrite  *)
(*     value and the executor.DirtyDB are collaborators: the first is a    *)
(*     key/value map with a liveness flag, the last is the log of the      *)
(*     calls it received.  calls records what the most recent operation    *)
(*     invoked on the underlying transaction and the store.                *)
(*   - A Go panic (a method call through the nil embedded Transaction)     *)
(*     runs the deferred calls and then ends the session's run: ret.err is *)
(*     ErrPanic and no further operation is taken.                         *)
(*   - The session's goroutine is the only one that touches the TxnState.  *)
(*     changePendingToValid suspends in future.wait() after it cleared the *)
(*     future reference: that is a state of its own (waiting), in which    *)
(*     the only step is the return of the wait.                            *)
(***************************************************************************)
EXTENDS Integers, Sequences, FiniteSets, TLC

\* ---------------------------------------------------------------- bounds
MaxKey == 2
MaxVal == 2
MaxTable == 1
MaxRow == 1
\* Rows and dirty operations staged or applied in one session.
MaxStaged == 3
\* The same, in the sessions that also read and write keys.
MaxSessionStaged == 2

Keys == 1..MaxKey
Bytes == 1..MaxVal
\* The []byte values a caller passes: the empty slice and the one-byte slices.
Vals == {<<>>} \cup {<<b>> : b \in Bytes}
Tables == 1..MaxTable
Rows == 1..MaxRow

\* ---------------------------------------------------------------- errors
Err(m, k) == [msg |-> m, at |-> k]
NoErr == Err("nil", 0)
ErrPanic == Err("panic: nil pointer dereference", 0)
ErrNotExist == Err("kv.ErrNotExist", 0)
ErrCannotSetNilValue == Err("kv.ErrCannotSetNilValue", 0)
ErrInvalidTxn == Err("invalid transaction", 0)
ErrFutureNotSet == Err("transaction future is not set", 0)
ErrMockGetTS == Err("mock get timestamp fail", 0)
\* The error of a failed tf.future.Wait().
ErrGetTS == Err("get timestamp failed", 0)
ErrMockStmtCommit == Err("mock stmt commit error", 0)
ErrBegin == Err("store begin failed", 0)
ErrKvCommit == Err("underlying commit failed", 0)
ErrKvRollback == Err("underlying rollback failed", 0)
\* The error the underlying transaction returns for a failed Set/Delete of key k.
ErrKvWrite(k) == Err("underlying write failed", k)

VARIABLES
    Transaction,   \* st.Transaction: <<>> or <<[data, valid]>>
    txnFuture,     \* st.txnFuture: <<>> or <<[mockFail]>>
    buf,           \* st.buf: the write overlay, key -> value (<<>> = tombstone)
    mutations,     \* st.mutations: tableID -> TableMutation
    dirtyTableOP,  \* st.dirtyTableOP: sequence of dirtyTableOperation
    doNotCommit,   \* st.doNotCommit: an error, NoErr when nil
    binlog,        \* the session's prewrite value: bin.Mutations
    dirtyDB,       \* the session's executor.DirtyDB: the calls it received
    calls,         \* calls the last operation made on the transaction / store
    ret,           \* the last operation and what it returned
    waiting        \* <<>>, or <<[future, txnCap]>> while changePendingToValid
                   \* is suspended in future.wait()

vars == <<Transaction, txnFuture, buf, mutations, dirtyTableOP, doNotCommit,
          binlog, dirtyDB, calls, ret, waiting>>

\* ------------------------------------------------------- helper records
Ret(o, k, v, e) == [op |-> o, key |-> k, val |-> v, err |-> e]
Call(f, k, v, ok) == [f |-> f, key |-> k, val |-> v, ok |-> ok]
EmptyMap == [x \in {} |-> <<>>]
Put(m, k, v) == [x \in DOMAIN m \cup {k} |-> IF x = k THEN v ELSE m[x]]
Remove(m, k) == [x \in DOMAIN m \ {k} |-> m[x]]
NewTxn(d) == [data |-> d, valid |-> TRUE]
\* What a freshly begun transaction reads: nothing, or <<1>> under every key.
Snapshots == {EmptyMap, [k \in Keys |-> <<1>>]}
Futures == [mockFail : BOOLEAN]
TableMutation(t) ==
    [TableId |-> t, InsertedRows |-> <<>>, UpdatedRows |-> <<>>,
     DeletedIds |-> <<>>, DeletedPks |-> <<>>, DeletedRows |-> <<>>,
     Sequence |-> <<>>]
Fields == {"InsertedRows", "UpdatedRows", "DeletedIds", "DeletedPks",
           "DeletedRows", "Sequence"}
Panicked == ret.err = ErrPanic

\* ----------------------------------------------------------- TxnState
init ==
    /\ buf = EmptyMap
    /\ mutations = EmptyMap

Init ==
    /\ Transaction = <<>>
    /\ txnFuture = <<>>
    /\ init
    /\ dirtyTableOP = <<>>
    /\ doNotCommit = NoErr
    /\ binlog = <<>>
    /\ dirtyDB = <<>>
    /\ calls = <<>>
    /\ ret = Ret("init", 0, <<>>, NoErr)
    /\ waiting = <<>>

Valid == Transaction # <<>> /\ Transaction[1].valid
pending == Transaction = <<>> /\ txnFuture # <<>>
validOrPending == txnFuture # <<>> \/ Valid
Invalid == Transaction = <<>> /\ txnFuture = <<>>

changeInvalidToValid(txn) ==
    /\ Transaction' = <<txn>>
    /\ txnFuture' = <<>>

changeInvalidToPending(future) ==
    /\ Transaction' = <<>>
    /\ txnFuture' = <<future>>

changeToInvalid ==
    /\ Transaction' = <<>>
    /\ txnFuture' = <<>>

\* -------------------------------------------------- txnFuture.wait
\* tsOk: whether tf.future.Wait() succeeds, ts: the timestamp it yields,
\* beginOk: whether the store's Begin / BeginWithStartTS succeeds,
\* d: the snapshot the begun transaction reads.
\* Result: [txn (<<>> when nil), err, calls (on the oracle future and store)].
\* Mutant: a failed timestamp wait is returned instead of retried by Begin.
wait_PropagatesTsError(tf, tsOk, ts, beginOk, d) ==
    IF tf.mockFail
    THEN [txn |-> <<>>, err |-> ErrMockGetTS, calls |-> <<>>]
    ELSE IF ~tsOk
    THEN [txn |-> <<>>, err |-> ErrGetTS,
          calls |-> <<Call("future.Wait", 0, <<>>, FALSE)>>]
    ELSE [txn |-> IF beginOk THEN <<NewTxn(d)>> ELSE <<>>,
          err |-> IF beginOk THEN NoErr ELSE ErrBegin,
          calls |-> <<Call("future.Wait", ts, <<>>, TRUE),
                      Call("store.BeginWithStartTS", ts, <<>>, beginOk)>>]

wait(tf, tsOk, ts, beginOk, d) ==
    IF tf.mockFail
    THEN [txn |-> <<>>, err |-> ErrMockGetTS, calls |-> <<>>]
    ELSE LET w == Call("future.Wait", IF tsOk THEN ts ELSE 0, <<>>, tsOk)
             b == IF tsOk
                  THEN Call("store.BeginWithStartTS", ts, <<>>, beginOk)
                  ELSE Call("store.Begin", 0, <<>>, beginOk)
         IN  [txn |-> IF beginOk THEN <<NewTxn(d)>> ELSE <<>>,
              err |-> IF beginOk THEN NoErr ELSE ErrBegin,
              calls |-> <<w, b>>]

\* Mutant: the future reference is not cleared before the wait.
changePendingToValid_KeepsFuture(txnCap) ==
    IF txnFuture = <<>>
    THEN /\ ret' = Ret("changePendingToValid", 0, <<>>, ErrFutureNotSet)
         /\ calls' = <<>>
         /\ UNCHANGED <<Transaction, txnFuture, waiting>>
    ELSE /\ UNCHANGED txnFuture
         /\ waiting' = <<[future |-> txnFuture[1], txnCap |-> txnCap]>>
         /\ ret' = Ret("future.wait", 0, <<>>, NoErr)
         /\ calls' = <<>>
         /\ UNCHANGED Transaction

\* Mutant: a call without a future also drops the transaction.
changePendingToValid_DropsTxnWhenNotSet(txnCap) ==
    IF txnFuture = <<>>
    THEN /\ ret' = Ret("changePendingToValid", 0, <<>>, ErrFutureNotSet)
         /\ calls' = <<>>
         /\ Transaction' = <<>>
         /\ UNCHANGED <<txnFuture, waiting>>
    ELSE /\ txnFuture' = <<>>
         /\ waiting' = <<[future |-> txnFuture[1], txnCap |-> txnCap]>>
         /\ ret' = Ret("future.wait", 0, <<>>, NoErr)
         /\ calls' = <<>>
         /\ UNCHANGED Transaction

\* changePendingToValid up to its call of future.wait(): without a future it
\* returns the error; with one it clears the reference and suspends in the
\* wait, holding the future in a local variable.
changePendingToValid(txnCap) ==
    IF txnFuture = <<>>
    THEN /\ ret' = Ret("changePendingToValid", 0, <<>>, ErrFutureNotSet)
         /\ calls' = <<>>
         /\ UNCHANGED <<Transaction, txnFuture, waiting>>
    ELSE /\ txnFuture' = <<>>
         /\ waiting' = <<[future |-> txnFuture[1], txnCap |-> txnCap]>>
         /\ ret' = Ret("future.wait", 0, <<>>, NoErr)
         /\ calls' = <<>>
         /\ UNCHANGED Transaction

\* Mutant: the future is put back for a retry when resolving it failed.
changePendingToValidReturn_RestoresFuture(r) ==
    /\ waiting' = <<>>
    /\ IF r.err # NoErr
       THEN /\ txnFuture' = <<waiting[1].future>>
            /\ Transaction' = <<>>
            /\ calls' = r.calls
            /\ ret' = Ret("changePendingToValid", 0, <<>>, r.err)
       ELSE /\ UNCHANGED txnFuture
            /\ Transaction' = r.txn
            /\ calls' = r.calls
                         \o <<Call("SetCap", waiting[1].txnCap, <<>>, TRUE)>>
            /\ ret' = Ret("changePendingToValid", 0, <<>>, NoErr)

\* changePendingToValid from the return of future.wait() on; r is what the
\* wait returned.
changePendingToValidReturn(r) ==
    /\ waiting' = <<>>
    /\ UNCHANGED txnFuture
    /\ IF r.err # NoErr
       THEN /\ Transaction' = <<>>
            /\ calls' = r.calls
            /\ ret' = Ret("changePendingToValid", 0, <<>>, r.err)
       ELSE /\ Transaction' = r.txn
            /\ calls' = r.calls
                         \o <<Call("SetCap", waiting[1].txnCap, <<>>, TRUE)>>
            /\ ret' = Ret("changePendingToValid", 0, <<>>, NoErr)

\* ------------------------------------------- the underlying transaction
\* kv.Transaction as a key/value map: Get of a key it does not hold is
\* ErrNotExist, Set stores, Delete removes.
kvGet(txn, k) ==
    IF k \in DOMAIN txn.data
    THEN [val |-> txn.data[k], err |-> NoErr]
    ELSE [val |-> <<>>, err |-> ErrNotExist]
kvSet(txn, k, v) == [txn EXCEPT !.data = Put(txn.data, k, v)]
kvDelete(txn, k) == [txn EXCEPT !.data = Remove(txn.data, k)]

\* ------------------------------------------------------- kv.MemBuffer
bufGet(k) ==
    IF k \in DOMAIN buf
    THEN [val |-> buf[k], err |-> NoErr]
    ELSE [val |-> <<>>, err |-> ErrNotExist]
IsErrNotFound(e) == e = ErrNotExist

\* --------------------------------------------------- cleanup and reset
\* Mutant: cleanup leaves the overlay as it is.
cleanup_KeepsOverlay ==
    /\ buf' = buf
    /\ mutations' = EmptyMap
    /\ dirtyTableOP' = <<>>

cleanup ==
    /\ buf' = EmptyMap
    /\ mutations' = EmptyMap
    /\ dirtyTableOP' = <<>>

\* Mutant: reset does not clear the fault marker.
reset_KeepsFault ==
    /\ doNotCommit' = doNotCommit
    /\ cleanup
    /\ changeToInvalid

reset ==
    /\ doNotCommit' = NoErr
    /\ cleanup
    /\ changeToInvalid

BuffersEmpty ==
    ~(Cardinality(DOMAIN mutations) # 0 \/ Len(dirtyTableOP) # 0
      \/ Cardinality(DOMAIN buf) # 0)

\* The calls GoString makes on the underlying transaction while it formats
\* the state machine for "%#v": none when a future is pending or no
\* transaction is held, Valid() otherwise, and StartTS() when Valid()
\* answered true.
GoString ==
    IF pending \/ Transaction = <<>>
    THEN <<>>
    ELSE IF Transaction[1].valid
    THEN <<Call("Valid", 0, <<>>, TRUE), Call("StartTS", 0, <<>>, TRUE)>>
    ELSE <<Call("Valid", 0, <<>>, FALSE)>>

\* ------------------------------------------------- Commit and Rollback
\* kvOk: whether the Commit or Rollback called on the underlying transaction
\* succeeds.  On the non-empty-buffers path log.Errorf formats st with "%#v",
\* at the error level, which the logger has enabled unless it is configured
\* to log fatal errors only; the formatting goes through GoString.
\* Mutant: Commit does not look at the fault marker.
CommitOutcome_IgnoresFault(kvOk) ==
    IF ~BuffersEmpty
    THEN [calls |-> GoString, err |-> ErrInvalidTxn]
    ELSE IF Transaction = <<>>
    THEN [calls |-> <<>>, err |-> ErrPanic]
    ELSE [calls |-> <<Call("Commit", 0, <<>>, kvOk)>>,
          err |-> IF kvOk THEN NoErr ELSE ErrKvCommit]

\* Mutant: Commit rolls the transaction back when the buffers are not empty.
CommitOutcome_RollbackOnInvalid(kvOk) ==
    IF ~BuffersEmpty /\ Transaction # <<>>
    THEN [calls |-> GoString \o <<Call("Rollback", 0, <<>>, kvOk)>>,
          err |-> ErrInvalidTxn]
    ELSE IF ~BuffersEmpty
    THEN [calls |-> GoString, err |-> ErrInvalidTxn]
    ELSE IF Transaction = <<>>
    THEN [calls |-> <<>>, err |-> ErrPanic]
    ELSE IF doNotCommit # NoErr
    THEN [calls |-> <<Call("Rollback", 0, <<>>, kvOk)>>, err |-> doNotCommit]
    ELSE [calls |-> <<Call("Commit", 0, <<>>, kvOk)>>,
          err |-> IF kvOk THEN NoErr ELSE ErrKvCommit]

\* Mutant: Commit looks at the fault marker before the buffers.
CommitOutcome_FaultFirst(kvOk) ==
    IF doNotCommit # NoErr /\ Transaction # <<>>
    THEN [calls |-> <<Call("Rollback", 0, <<>>, kvOk)>>, err |-> doNotCommit]
    ELSE IF ~BuffersEmpty
    THEN [calls |-> GoString, err |-> ErrInvalidTxn]
    ELSE IF Transaction = <<>>
    THEN [calls |-> <<>>, err |-> ErrPanic]
    ELSE [calls |-> <<Call("Commit", 0, <<>>, kvOk)>>,
          err |-> IF kvOk THEN NoErr ELSE ErrKvCommit]

CommitOutcome(kvOk) ==
    IF ~BuffersEmpty
    THEN [calls |-> GoString, err |-> ErrInvalidTxn]
    ELSE IF Transaction = <<>>
    THEN [calls |-> <<>>, err |-> ErrPanic]
    ELSE IF doNotCommit # NoErr
    THEN [calls |-> <<Call("Rollback", 0, <<>>, kvOk)>>, err |-> doNotCommit]
    ELSE [calls |-> <<Call("Commit", 0, <<>>, kvOk)>>,
          err |-> IF kvOk THEN NoErr ELSE ErrKvCommit]

Commit(kvOk) ==
    /\ ~Panicked
    /\ waiting = <<>>
    /\ UNCHANGED waiting
    /\ reset
    /\ UNCHANGED <<binlog, dirtyDB>>
    /\ LET o == CommitOutcome(kvOk)
       IN  /\ calls' = o.calls
           /\ ret' = Ret("Commit", 0, <<>>, o.err)

Rollback(kvOk) ==
    /\ ~Panicked
    /\ waiting = <<>>
    /\ UNCHANGED waiting
    /\ reset
    /\ UNCHANGED <<binlog, dirtyDB>>
    /\ IF Transaction = <<>>
       THEN /\ calls' = <<>>
            /\ ret' = Ret("Rollback", 0, <<>>, ErrPanic)
       ELSE /\ calls' = <<Call("Rollback", 0, <<>>, kvOk)>>
            /\ ret' = Ret("Rollback", 0, <<>>,
                          IF kvOk THEN NoErr ELSE ErrKvRollback)

\* ------------------------------------------------- Get, Set and Delete
\* Mutant: Get returns the empty value it found instead of NotFound.
GetResult_NoEmptyCheck(k) ==
    LET b == bufGet(k)
        miss == IsErrNotFound(b.err)
    IN  IF miss /\ Transaction = <<>>
        THEN [val |-> <<>>, err |-> ErrPanic, calls |-> <<>>]
        ELSE LET r == IF miss THEN kvGet(Transaction[1], k) ELSE b
                 c == IF miss
                      THEN <<Call("Get", k, r.val, r.err = NoErr)>>
                      ELSE <<>>
             IN  IF r.err # NoErr
                 THEN [val |-> <<>>, err |-> r.err, calls |-> c]
                 ELSE [val |-> r.val, err |-> NoErr, calls |-> c]

\* Mutant: Get asks the underlying transaction first and the overlay only
\* when the transaction does not hold the key.
GetResult_UnderlyingFirst(k) ==
    IF Transaction = <<>>
    THEN [val |-> <<>>, err |-> ErrPanic, calls |-> <<>>]
    ELSE LET u == kvGet(Transaction[1], k)
             r == IF IsErrNotFound(u.err) THEN bufGet(k) ELSE u
             c == <<Call("Get", k, u.val, u.err = NoErr)>>
         IN  IF r.err # NoErr
             THEN [val |-> <<>>, err |-> r.err, calls |-> c]
             ELSE IF Len(r.val) = 0
             THEN [val |-> <<>>, err |-> ErrNotExist, calls |-> c]
             ELSE [val |-> r.val, err |-> NoErr, calls |-> c]

\* What TxnState.Get(k) returns in the current state, and the calls it
\* makes on the underlying transaction.
GetResult(k) ==
    LET b == bufGet(k)
        miss == IsErrNotFound(b.err)
    IN  IF miss /\ Transaction = <<>>
        THEN [val |-> <<>>, err |-> ErrPanic, calls |-> <<>>]
        ELSE LET r == IF miss THEN kvGet(Transaction[1], k) ELSE b
                 c == IF miss
                      THEN <<Call("Get", k, r.val, r.err = NoErr)>>
                      ELSE <<>>
             IN  IF miss /\ IsErrNotFound(r.err)
                 THEN [val |-> <<>>, err |-> r.err, calls |-> c]
                 ELSE IF r.err # NoErr
                 THEN [val |-> <<>>, err |-> r.err, calls |-> c]
                 ELSE IF Len(r.val) = 0
                 THEN [val |-> <<>>, err |-> ErrNotExist, calls |-> c]
                 ELSE [val |-> r.val, err |-> NoErr, calls |-> c]

Get(k) ==
    /\ ~Panicked
    /\ waiting = <<>>
    /\ UNCHANGED waiting
    /\ LET g == GetResult(k)
       IN  /\ ret' = Ret("Get", k, g.val, g.err)
           /\ calls' = g.calls
    /\ UNCHANGED <<Transaction, txnFuture, buf, mutations, dirtyTableOP,
                   doNotCommit, binlog, dirtyDB>>

\* kv.MemBuffer.Set refuses the empty value, which is the deletion marker.
bufSet(k, v) ==
    IF Len(v) = 0
    THEN /\ buf' = buf
         /\ ret' = Ret("Set", k, v, ErrCannotSetNilValue)
    ELSE /\ buf' = Put(buf, k, v)
         /\ ret' = Ret("Set", k, v, NoErr)

bufDelete(k) ==
    /\ buf' = Put(buf, k, <<>>)
    /\ ret' = Ret("Delete", k, <<>>, NoErr)

\* Mutant: Set also writes the value through to the underlying transaction.
Set_WritesThrough(k, v) ==
    /\ ~Panicked
    /\ waiting = <<>>
    /\ UNCHANGED waiting
    /\ bufSet(k, v)
    /\ IF Transaction # <<>> /\ Len(v) > 0
       THEN /\ Transaction' = <<kvSet(Transaction[1], k, v)>>
            /\ calls' = <<Call("Set", k, v, TRUE)>>
       ELSE /\ UNCHANGED Transaction
            /\ calls' = <<>>
    /\ UNCHANGED <<txnFuture, mutations, dirtyTableOP, doNotCommit, binlog,
                   dirtyDB>>

Set(k, v) ==
    /\ ~Panicked
    /\ waiting = <<>>
    /\ UNCHANGED waiting
    /\ bufSet(k, v)
    /\ calls' = <<>>
    /\ UNCHANGED <<Transaction, txnFuture, mutations, dirtyTableOP,
                   doNotCommit, binlog, dirtyDB>>

Delete(k) ==
    /\ ~Panicked
    /\ waiting = <<>>
    /\ UNCHANGED waiting
    /\ bufDelete(k)
    /\ calls' = <<>>
    /\ UNCHANGED <<Transaction, txnFuture, mutations, dirtyTableOP,
                   doNotCommit, binlog, dirtyDB>>

\* ----------------------------------------------- binlog and dirty table
RowCount(m) ==
    Len(m.InsertedRows) + Len(m.UpdatedRows) + Len(m.DeletedIds)
    + Len(m.DeletedPks) + Len(m.DeletedRows) + Len(m.Sequence)

RECURSIVE SeqRowCount(_)
SeqRowCount(ms) ==
    IF ms = <<>> THEN 0 ELSE RowCount(Head(ms)) + SeqRowCount(Tail(ms))

RECURSIVE MapRowCount(_)
MapRowCount(mm) ==
    IF DOMAIN mm = {} THEN 0
    ELSE LET t == CHOOSE x \in DOMAIN mm : TRUE
         IN  RowCount(mm[t]) + MapRowCount(Remove(mm, t))

\* The rows and dirty operations the session holds, staged or applied.
Staged ==
    MapRowCount(mutations) + SeqRowCount(binlog)
    + Len(dirtyTableOP) + Len(dirtyDB)

\* The index of tableID's mutation in bin, 0 when there is none.
FindMutation(bin, tableID) ==
    IF \E i \in 1..Len(bin) : bin[i].TableId = tableID
    THEN CHOOSE i \in 1..Len(bin) :
            /\ bin[i].TableId = tableID
            /\ \A j \in 1..(i - 1) : bin[j].TableId # tableID
    ELSE 0

\* getBinlogMutation: [bin (with the table's mutation appended when it had
\* none), idx (where the returned pointer points)].
getBinlogMutation(bin, tableID) ==
    LET i == FindMutation(bin, tableID)
    IN  IF i # 0
        THEN [bin |-> bin, idx |-> i]
        ELSE [bin |-> Append(bin, TableMutation(tableID)), idx |-> Len(bin) + 1]

\* Mutant: the rows are moved, not copied: the source is left empty.
mergeToMutation_MovesRows(m1, m2) ==
    [m1 |-> [m1 EXCEPT !.InsertedRows = m1.InsertedRows \o m2.InsertedRows,
                       !.UpdatedRows = m1.UpdatedRows \o m2.UpdatedRows,
                       !.DeletedIds = m1.DeletedIds \o m2.DeletedIds,
                       !.DeletedPks = m1.DeletedPks \o m2.DeletedPks,
                       !.DeletedRows = m1.DeletedRows \o m2.DeletedRows,
                       !.Sequence = m1.Sequence \o m2.Sequence],
     m2 |-> TableMutation(m2.TableId)]

\* mergeToMutation takes two pointers: the result is what *m1 and *m2 hold
\* when it returns.  It assigns to the six fields of m1 and to nothing of m2.
mergeToMutation(m1, m2) ==
    [m1 |-> [m1 EXCEPT !.InsertedRows = m1.InsertedRows \o m2.InsertedRows,
                       !.UpdatedRows = m1.UpdatedRows \o m2.UpdatedRows,
                       !.DeletedIds = m1.DeletedIds \o m2.DeletedIds,
                       !.DeletedPks = m1.DeletedPks \o m2.DeletedPks,
                       !.DeletedRows = m1.DeletedRows \o m2.DeletedRows,
                       !.Sequence = m1.Sequence \o m2.Sequence],
     m2 |-> m2]

DirtyOp(kind, tid, handle, row) ==
    [kind |-> kind, tid |-> tid, handle |-> handle, row |-> row]

\* executor.DirtyDB as the log of the calls made on it.
mergeToDirtyDB(db, op) ==
    CASE op.kind = "DirtyTableAddRow" ->
            Append(db, [f |-> "AddRow", tid |-> op.tid, handle |-> op.handle,
                        row |-> op.row])
      [] op.kind = "DirtyTableDeleteRow" ->
            Append(db, [f |-> "DeleteRow", tid |-> op.tid,
                        handle |-> op.handle, row |-> <<>>])
      [] op.kind = "DirtyTableTruncate" ->
            Append(db, [f |-> "TruncateTable", tid |-> op.tid, handle |-> 0,
                        row |-> <<>>])
      [] OTHER -> db

\* The operations the table layer stages on tables T with row handles R.
DirtyOps(T, R) ==
    {DirtyOp("DirtyTableAddRow", t, h, <<h>>) : t \in T, h \in R}
    \cup {DirtyOp("DirtyTableDeleteRow", t, h, <<>>) : t \in T, h \in R}
    \cup {DirtyOp("DirtyTableTruncate", t, 0, <<>>) : t \in T}

\* The loop of StmtCommit over st.mutations, visiting the tables in the
\* order ord (Go leaves the order of a map range unspecified).  Each staged
\* mutation is read by one merge only, and the deferred cleanup deletes it.
RECURSIVE MergeMutations(_, _, _)
MergeMutations(bin, ord, i) ==
    IF i > Len(ord) THEN bin
    ELSE LET g == getBinlogMutation(bin, ord[i])
             merged == [g.bin EXCEPT
                          ![g.idx] = mergeToMutation(g.bin[g.idx],
                                                     mutations[ord[i]]).m1]
         IN  MergeMutations(merged, ord, i + 1)

\* Mutant: the staged operations are applied last to first.
RECURSIVE MergeDirtyOps_Reversed(_, _, _)
MergeDirtyOps_Reversed(db, ops, i) ==
    IF i > Len(ops) THEN db
    ELSE MergeDirtyOps_Reversed(mergeToDirtyDB(db, ops[Len(ops) + 1 - i]),
                                ops, i + 1)

\* The loop of StmtCommit over st.dirtyTableOP.
RECURSIVE MergeDirtyOps(_, _, _)
MergeDirtyOps(db, ops, i) ==
    IF i > Len(ops) THEN db
    ELSE MergeDirtyOps(mergeToDirtyDB(db, ops[i]), ops, i + 1)

Orders(S) ==
    {s \in [1..Cardinality(S) -> S] :
        \A i, j \in 1..Cardinality(S) : i # j => s[i] # s[j]}

\* gofail leaves the mock counter of StmtCommit at its zero value.
count == 0

\* ------------------------------------------------------- kv.WalkMemBuffer
RECURSIVE SortedKeys(_)
SortedKeys(S) ==
    IF S = {} THEN <<>>
    ELSE LET m == CHOOSE x \in S : \A y \in S : x <= y
         IN  <<m>> \o SortedKeys(S \ {m})

\* The overlay's entries in ascending key order.
Entries(b) ==
    LET ks == SortedKeys(DOMAIN b)
    IN  [i \in 1..Len(ks) |-> [k |-> ks[i], v |-> b[ks[i]]]]

\* Mutant: the callback drops the error of the underlying Set/Delete.
FlushEntry_SwallowsError(txn, k, v, kvOk) ==
    IF Len(v) = 0
    THEN [txn |-> IF kvOk THEN kvDelete(txn, k) ELSE txn,
          err |-> NoErr,
          calls |-> <<Call("Delete", k, <<>>, kvOk)>>]
    ELSE [txn |-> IF kvOk THEN kvSet(txn, k, v) ELSE txn,
          err |-> NoErr,
          calls |-> <<Call("Set", k, v, kvOk)>>]

\* Mutant: the callback passes a tombstone on to Set instead of Delete.
FlushEntry_SetsTombstone(txn, k, v, kvOk) ==
    [txn |-> IF kvOk THEN kvSet(txn, k, v) ELSE txn,
     err |-> IF kvOk THEN NoErr ELSE ErrKvWrite(k),
     calls |-> <<Call("Set", k, v, kvOk)>>]

\* The callback StmtCommit hands to WalkMemBuffer, on transaction txn;
\* kvOk: whether the underlying Set/Delete succeeds.
FlushEntry(txn, k, v, kvOk) ==
    IF count > 3
    THEN [txn |-> txn, err |-> ErrMockStmtCommit, calls |-> <<>>]
    ELSE IF Len(v) = 0
    THEN [txn |-> IF kvOk THEN kvDelete(txn, k) ELSE txn,
          err |-> IF kvOk THEN NoErr ELSE ErrKvWrite(k),
          calls |-> <<Call("Delete", k, <<>>, kvOk)>>]
    ELSE [txn |-> IF kvOk THEN kvSet(txn, k, v) ELSE txn,
          err |-> IF kvOk THEN NoErr ELSE ErrKvWrite(k),
          calls |-> <<Call("Set", k, v, kvOk)>>]

\* WalkMemBuffer: the callback on each entry in order, stopping at the first
\* error; failAt is the entry whose underlying write fails (0: none).
RECURSIVE WalkMemBuffer(_, _, _, _)
WalkMemBuffer(txn, es, i, failAt) ==
    IF i > Len(es)
    THEN [txn |-> txn, err |-> NoErr, calls |-> <<>>]
    ELSE LET r == FlushEntry(txn, es[i].k, es[i].v, i # failAt)
         IN  IF r.err # NoErr
             THEN r
             ELSE LET rest == WalkMemBuffer(r.txn, es, i + 1, failAt)
                  IN  [txn |-> rest.txn, err |-> rest.err,
                       calls |-> r.calls \o rest.calls]

\* ------------------------------------------------------------- session
\* StmtCommit without its deferred cleanup.
StmtCommitBody(failAt, ord) ==
    /\ UNCHANGED txnFuture
    /\ LET es == Entries(buf)
       IN  IF es # <<>> /\ Transaction = <<>>
           THEN /\ ret' = Ret("StmtCommit", 0, <<>>, ErrPanic)
                /\ calls' = <<>>
                /\ UNCHANGED <<Transaction, doNotCommit, binlog, dirtyDB>>
           ELSE LET w == IF es = <<>>
                         THEN [txn |-> <<>>, err |-> NoErr, calls |-> <<>>]
                         ELSE WalkMemBuffer(Transaction[1], es, 1, failAt)
                IN  /\ Transaction' = IF es = <<>> THEN Transaction
                                      ELSE <<w.txn>>
                    /\ calls' = w.calls
                    /\ ret' = Ret("StmtCommit", 0, <<>>, w.err)
                    /\ IF w.err # NoErr
                       THEN /\ doNotCommit' = w.err
                            /\ UNCHANGED <<binlog, dirtyDB>>
                       ELSE /\ UNCHANGED doNotCommit
                            /\ binlog' = MergeMutations(binlog, ord, 1)
                            /\ dirtyDB' = IF Len(dirtyTableOP) > 0
                                          THEN MergeDirtyOps(dirtyDB,
                                                             dirtyTableOP, 1)
                                          ELSE dirtyDB

\* Mutant: StmtCommit cleans up only when the flush succeeded.
StmtCommit_CleanupOnSuccess(failAt, ord) ==
    /\ ~Panicked
    /\ waiting = <<>>
    /\ UNCHANGED waiting
    /\ StmtCommitBody(failAt, ord)
    /\ IF ret'.err = NoErr
       THEN cleanup
       ELSE UNCHANGED <<buf, mutations, dirtyTableOP>>

StmtCommit(failAt, ord) ==
    /\ ~Panicked
    /\ waiting = <<>>
    /\ UNCHANGED waiting
    /\ cleanup
    /\ StmtCommitBody(failAt, ord)

\* Mutant: StmtRollback also clears the fault marker.
StmtRollback_ClearsFault ==
    /\ ~Panicked
    /\ waiting = <<>>
    /\ UNCHANGED waiting
    /\ cleanup
    /\ doNotCommit' = NoErr
    /\ calls' = <<>>
    /\ ret' = Ret("StmtRollback", 0, <<>>, NoErr)
    /\ UNCHANGED <<Transaction, txnFuture, binlog, dirtyDB>>

StmtRollback ==
    /\ ~Panicked
    /\ waiting = <<>>
    /\ UNCHANGED waiting
    /\ cleanup
    /\ calls' = <<>>
    /\ ret' = Ret("StmtRollback", 0, <<>>, NoErr)
    /\ UNCHANGED <<Transaction, txnFuture, doNotCommit, binlog, dirtyDB>>

StmtGetMutation(tableID) ==
    /\ ~Panicked
    /\ waiting = <<>>
    /\ UNCHANGED waiting
    /\ mutations' = IF tableID \notin DOMAIN mutations
                    THEN Put(mutations, tableID, TableMutation(tableID))
                    ELSE mutations
    /\ calls' = <<>>
    /\ ret' = Ret("StmtGetMutation", tableID, <<>>, NoErr)
    /\ UNCHANGED <<Transaction, txnFuture, buf, dirtyTableOP, doNotCommit,
                   binlog, dirtyDB>>

\* The table layer writing a row through the pointer StmtGetMutation
\* returned: row r appended to field f of table tableID's mutation.
MutationAppend(tableID, f, r) ==
    /\ ~Panicked
    /\ waiting = <<>>
    /\ UNCHANGED waiting
    /\ tableID \in DOMAIN mutations
    /\ Staged < MaxStaged
    /\ mutations' = [mutations EXCEPT ![tableID][f] = Append(@, r)]
    /\ calls' = <<>>
    /\ ret' = Ret("MutationAppend", tableID, <<>>, NoErr)
    /\ UNCHANGED <<Transaction, txnFuture, buf, dirtyTableOP, doNotCommit,
                   binlog, dirtyDB>>

StmtAddDirtyTableOP(op) ==
    /\ ~Panicked
    /\ waiting = <<>>
    /\ UNCHANGED waiting
    /\ Staged < MaxStaged
    /\ dirtyTableOP' = Append(dirtyTableOP, op)
    /\ calls' = <<>>
    /\ ret' = Ret("StmtAddDirtyTableOP", op.tid, <<>>, NoErr)
    /\ UNCHANGED <<Transaction, txnFuture, buf, mutations, doNotCommit,
                   binlog, dirtyDB>>

\* ------------------------------------------- the state machine's callers
Caps == {0}
Timestamps == {1, 2}

CallChangeInvalidToValid(d) ==
    /\ ~Panicked
    /\ waiting = <<>>
    /\ UNCHANGED waiting
    /\ changeInvalidToValid(NewTxn(d))
    /\ calls' = <<>>
    /\ ret' = Ret("changeInvalidToValid", 0, <<>>, NoErr)
    /\ UNCHANGED <<buf, mutations, dirtyTableOP, doNotCommit, binlog, dirtyDB>>

CallChangeInvalidToPending(future) ==
    /\ ~Panicked
    /\ waiting = <<>>
    /\ UNCHANGED waiting
    /\ changeInvalidToPending(future)
    /\ calls' = <<>>
    /\ ret' = Ret("changeInvalidToPending", 0, <<>>, NoErr)
    /\ UNCHANGED <<buf, mutations, dirtyTableOP, doNotCommit, binlog, dirtyDB>>

\* The call of changePendingToValid, up to the return or the suspension.
CallChangePendingToValid(txnCap) ==
    /\ ~Panicked
    /\ waiting = <<>>
    /\ changePendingToValid(txnCap)
    /\ UNCHANGED <<buf, mutations, dirtyTableOP, doNotCommit, binlog, dirtyDB>>

\* future.wait() returns into the suspended changePendingToValid, which
\* runs to its end.
ReturnChangePendingToValid(tsOk, ts, beginOk, d) ==
    /\ ~Panicked
    /\ waiting # <<>>
    /\ changePendingToValidReturn(wait(waiting[1].future, tsOk, ts, beginOk, d))
    /\ UNCHANGED <<buf, mutations, dirtyTableOP, doNotCommit, binlog, dirtyDB>>

\* Mutant: changeToInvalid also empties the overlay and the staging.
CallChangeToInvalid_Cleanup ==
    /\ ~Panicked
    /\ waiting = <<>>
    /\ UNCHANGED waiting
    /\ changeToInvalid
    /\ cleanup
    /\ calls' = <<>>
    /\ ret' = Ret("changeToInvalid", 0, <<>>, NoErr)
    /\ UNCHANGED <<doNotCommit, binlog, dirtyDB>>

CallChangeToInvalid ==
    /\ ~Panicked
    /\ waiting = <<>>
    /\ UNCHANGED waiting
    /\ changeToInvalid
    /\ calls' = <<>>
    /\ ret' = Ret("changeToInvalid", 0, <<>>, NoErr)
    /\ UNCHANGED <<buf, mutations, dirtyTableOP, doNotCommit, binlog, dirtyDB>>

\* The state machine's transitions, the transaction-level operations and the
\* statement-level reads and writes, on keys K with values V.
KvNext(K, V) ==
    \/ \E d \in Snapshots : CallChangeInvalidToValid(d)
    \/ \E f \in Futures : CallChangeInvalidToPending(f)
    \/ \E c \in Caps : CallChangePendingToValid(c)
    \/ \E tsOk \in BOOLEAN, ts \in Timestamps, beginOk \in BOOLEAN,
          d \in Snapshots : ReturnChangePendingToValid(tsOk, ts, beginOk, d)
    \/ CallChangeToInvalid
    \/ \E kvOk \in BOOLEAN : Commit(kvOk)
    \/ \E kvOk \in BOOLEAN : Rollback(kvOk)
    \/ \E k \in K : Get(k)
    \/ \E k \in K, v \in V : Set(k, v)
    \/ \E k \in K : Delete(k)
    \/ \E failAt \in 0..Cardinality(DOMAIN buf), ord \in Orders(DOMAIN mutations) :
          StmtCommit(failAt, ord)
    \/ StmtRollback

\* The staging of replication mutations and dirty-table operations, on
\* tables T, mutation fields F and rows R.
StagingNext(T, F, R) ==
    \/ \E t \in T : StmtGetMutation(t)
    \/ \E t \in T, f \in F, r \in R : MutationAppend(t, f, r)
    \/ \E op \in DirtyOps(T, R) : StmtAddDirtyTableOP(op)

\* Every operation, on every key and value.
Next == KvNext(Keys, Vals) \/ StagingNext(Tables, Fields, Rows)

Spec == Init /\ [][Next]_vars

\* The operations on the overlay and the underlying transaction, on every key
\* and value, with nothing staged in the ledger or the dirty-operation log.
NextKV == KvNext(Keys, Vals)

SpecKV == Init /\ [][NextKV]_vars

\* Every operation: the reads and writes on one key with one value, the
\* staging on one table with one row, appended to InsertedRows, of at most
\* MaxSessionStaged rows and dirty operations.
NextSession ==
    \/ KvNext({1}, {<<1>>})
    \/ StmtGetMutation(1)
    \/ /\ Staged < MaxSessionStaged
       /\ \/ MutationAppend(1, "InsertedRows", 1)
          \/ \E op \in DirtyOps({1}, {1}) : StmtAddDirtyTableOP(op)

SpecSession == Init /\ [][NextSession]_vars

\* The rows the table layer stages in the sessions that only stage and merge.
MergeRows == {1, 2}

\* The staging of replication mutations on one table, in every field, and the
\* statement boundaries that merge or discard them; no key is written, so
\* StmtCommit has nothing to flush.
NextLedger ==
    \/ StmtGetMutation(1)
    \/ \E f \in Fields, r \in MergeRows : MutationAppend(1, f, r)
    \/ \E ord \in Orders(DOMAIN mutations) : StmtCommit(0, ord)
    \/ StmtRollback

SpecLedger == Init /\ [][NextLedger]_vars

\* ================================================================ claims
Data == IF Transaction = <<>> THEN EmptyMap ELSE Transaction[1].data
IsFlushErr(e) == e.msg = "underlying write failed"
StatementOps == {"Get", "Set", "Delete", "StmtCommit", "StmtRollback",
                 "StmtGetMutation", "MutationAppend", "StmtAddDirtyTableOP"}
CallsFor(cs, k) == {i \in 1..Len(cs) : cs[i].key = k}

\* C1: phase exclusivity.  In every reachable state exactly one of these
\* holds: no transaction and no future (Invalid), no transaction and a future
\* (Pending), a transaction and no future; a resolved transaction and a
\* pending future are never held together.
C1_PhaseExclusivity ==
    /\ Cardinality({p \in {"Invalid", "Pending", "Txn"} :
            \/ p = "Invalid" /\ Transaction = <<>> /\ txnFuture = <<>>
            \/ p = "Pending" /\ Transaction = <<>> /\ txnFuture # <<>>
            \/ p = "Txn" /\ Transaction # <<>> /\ txnFuture = <<>>}) = 1
    /\ ~(Transaction # <<>> /\ txnFuture # <<>>)

\* A pending future was resolved into a transaction.
C1_Witness ==
    /\ ret.op = "changePendingToValid"
    /\ ret.err = NoErr
    /\ Transaction # <<>>
    /\ txnFuture = <<>>

\* C2: fault poisoning.  A StmtCommit that fails in the flush stores its
\* error in the fault marker; no statement-level operation (Get, Set, Delete,
\* StmtCommit, StmtRollback and the staging calls) clears the marker, a later
\* successful StmtCommit included; and a Commit on a transaction-holding state
\* machine whose marker is set and whose buffers are empty (as they are at a
\* statement boundary) returns the stored error and makes exactly one call on
\* the underlying transaction, Rollback, whether or not that Rollback fails.
C2_FaultPoisoning ==
    [][/\ (ret'.op = "StmtCommit" /\ IsFlushErr(ret'.err)) =>
             doNotCommit' = ret'.err
       /\ (doNotCommit # NoErr /\ ret'.op \in StatementOps) =>
             /\ doNotCommit' # NoErr
             /\ (~IsFlushErr(ret'.err) => doNotCommit' = doNotCommit)
       /\ (/\ ret'.op = "Commit"
           /\ doNotCommit # NoErr
           /\ Transaction # <<>>
           /\ (BuffersEmpty \/ ret.op \in {"StmtCommit", "StmtRollback"})) =>
             /\ ret'.err = doNotCommit
             /\ Len(calls') = 1
             /\ calls'[1].f = "Rollback"
             /\ \A i \in 1..Len(calls') : calls'[i].f # "Commit"]_vars

\* Commit returned the stored flush error although the underlying Rollback
\* it called failed.
C2_Witness ==
    /\ ret.op = "Commit"
    /\ IsFlushErr(ret.err)
    /\ calls = <<Call("Rollback", 0, <<>>, FALSE)>>

\* C3: Commit/Rollback always resets.  After TxnState.Commit or
\* TxnState.Rollback, whatever the outcome, the state machine is Invalid,
\* Valid() is false, the overlay, the ledger and the dirty-operation log are
\* empty and the fault marker is nil; and after changeInvalidToPending the
\* state machine is Pending.
C3_CommitRollbackResets ==
    /\ ret.op \in {"Commit", "Rollback"} =>
          /\ Invalid
          /\ ~Valid
          /\ buf = EmptyMap
          /\ mutations = EmptyMap
          /\ dirtyTableOP = <<>>
          /\ doNotCommit = NoErr
    /\ ret.op = "changeInvalidToPending" => pending

\* Rollback returned the underlying transaction's rollback error.
C3_Witness ==
    /\ ret.op = "Rollback"
    /\ ret.err = ErrKvRollback
    /\ calls = <<Call("Rollback", 0, <<>>, FALSE)>>

\* C4: statement commit drains exactly once.  When StmtCommit succeeds, each
\* key of the overlay got exactly one successful call on the underlying
\* transaction (Delete for an empty value, Set with the buffered value
\* otherwise) and holds the buffered value there, and no other key was
\* called or changed; a StmtCommit that finds the overlay empty, as one
\* right after another StmtCommit does, makes no call and leaves the
\* underlying transaction as it was.
C4_StmtCommitDrainsOnce ==
    [][/\ (ret'.op = "StmtCommit" /\ ret'.err = NoErr) =>
             /\ Len(calls') = Cardinality(DOMAIN buf)
             /\ \A k \in Keys :
                   IF k \in DOMAIN buf
                   THEN /\ Cardinality(CallsFor(calls', k)) = 1
                        /\ \A i \in CallsFor(calls', k) :
                              calls'[i] =
                                 IF Len(buf[k]) = 0
                                 THEN Call("Delete", k, <<>>, TRUE)
                                 ELSE Call("Set", k, buf[k], TRUE)
                        /\ IF Len(buf[k]) = 0
                           THEN k \notin DOMAIN Data'
                           ELSE k \in DOMAIN Data' /\ Data'[k] = buf[k]
                   ELSE /\ CallsFor(calls', k) = {}
                        /\ (k \in DOMAIN Data') = (k \in DOMAIN Data)
                        /\ k \in DOMAIN Data => Data'[k] = Data[k]
       /\ (ret'.op = "StmtCommit"
           /\ (buf = EmptyMap \/ ret.op = "StmtCommit")) =>
             /\ calls' = <<>>
             /\ Transaction' = Transaction]_vars

\* A successful StmtCommit that flushed a tombstone and a value.
C4_Witness ==
    /\ ret.op = "StmtCommit"
    /\ ret.err = NoErr
    /\ Len(calls) = 2
    /\ calls[1].f = "Delete"
    /\ calls[2].f = "Set"
    /\ calls[2].key \in DOMAIN Data
    /\ calls[1].key \notin DOMAIN Data

\* C5: after every StmtCommit, successful or failed in the flush, the
\* overlay, the mutation ledger and the dirty-operation log are empty; so at
\* every statement boundary the emptiness precondition of Commit holds.
C5_StmtCommitEmptiesBuffers ==
    /\ ret.op = "StmtCommit" =>
          /\ buf = EmptyMap
          /\ mutations = EmptyMap
          /\ dirtyTableOP = <<>>
    /\ ret.op \in {"StmtCommit", "StmtRollback"} => BuffersEmpty

\* A StmtCommit whose flush failed, in a session whose ledger an earlier
\* StmtCommit had merged into.
C5_Witness ==
    /\ ret.op = "StmtCommit"
    /\ IsFlushErr(ret.err)
    /\ calls # <<>>
    /\ ~calls[Len(calls)].ok
    /\ binlog # <<>>
    /\ buf = EmptyMap

\* C6: statement rollback discards.  StmtRollback empties the overlay, the
\* mutation ledger and the dirty-operation log, calls nothing on the
\* underlying transaction and leaves it, the phase, the fault marker, the
\* session's replication ledger and the row cache unchanged; after it Get(a)
\* is NotFound for every key a the underlying transaction does not hold.
C6_StmtRollbackDiscards ==
    [][ret'.op = "StmtRollback" =>
          /\ buf' = EmptyMap
          /\ mutations' = EmptyMap
          /\ dirtyTableOP' = <<>>
          /\ calls' = <<>>
          /\ UNCHANGED <<Transaction, txnFuture, doNotCommit, binlog, dirtyDB>>
          /\ \A a \in Keys :
                (Transaction # <<>> /\ a \notin DOMAIN Data) =>
                   GetResult(a)'.err = ErrNotExist]_vars

\* After a StmtRollback: a transaction with a stored fault and a merged
\* ledger, all untouched, and a key absent from it.
C6_Witness ==
    /\ ret.op = "StmtRollback"
    /\ Transaction # <<>>
    /\ doNotCommit # NoErr
    /\ binlog # <<>>
    /\ \E a \in Keys : a \notin DOMAIN Data /\ GetResult(a).err = ErrNotExist

\* C7: statement atomicity across boundaries.  No operation of a statement
\* other than StmtCommit changes the underlying transaction, and right after
\* a StmtRollback Get(k) is, for every key k, exactly what the underlying
\* transaction holds for k: its value, or NotFound; so a value flushed by an
\* earlier StmtCommit is what Get returns after a later statement that
\* overwrote or deleted the key is rolled back.
C7_StatementAtomicity ==
    [][/\ ret'.op \in (StatementOps \ {"StmtCommit"}) =>
             Transaction' = Transaction
       /\ (ret'.op = "StmtRollback" /\ Transaction # <<>>) =>
             \A k \in Keys :
                GetResult(k)' =
                   IF k \in DOMAIN Data
                   THEN [val |-> Data[k], err |-> NoErr,
                         calls |-> <<Call("Get", k, Data[k], TRUE)>>]
                   ELSE [val |-> <<>>, err |-> ErrNotExist,
                         calls |-> <<Call("Get", k, <<>>, FALSE)>>]
       /\ (ret.op = "StmtRollback" /\ ret'.op = "Get" /\ Transaction # <<>>) =>
             IF ret'.key \in DOMAIN Data
             THEN ret'.val = Data[ret'.key] /\ ret'.err = NoErr
             ELSE ret'.val = <<>> /\ ret'.err = ErrNotExist]_vars

\* Right after a StmtRollback, Get(k) is <<2>>, a value the underlying
\* transaction can only hold through an earlier successful StmtCommit.
C7_Witness ==
    /\ ret.op = "StmtRollback"
    /\ buf = EmptyMap
    /\ \E k \in Keys :
          /\ k \in DOMAIN Data
          /\ Data[k] = <<2>>
          /\ GetResult(k).val = <<2>>
          /\ GetResult(k).err = NoErr

\* C8: tombstone correctness.  Delete(k) leaves a tombstone for k; while the
\* overlay holds a tombstone for k, Get(k) returns NotFound without
\* consulting the underlying transaction, whatever it holds for k; and Get
\* never returns an empty value.
C8_TombstoneCorrectness ==
    /\ ret.op = "Delete" => ret.key \in DOMAIN buf /\ buf[ret.key] = <<>>
    /\ \A k \in Keys :
          (k \in DOMAIN buf /\ buf[k] = <<>>) =>
             GetResult(k) = [val |-> <<>>, err |-> ErrNotExist, calls |-> <<>>]
    /\ (ret.op = "Get" /\ ret.key \in DOMAIN buf /\ buf[ret.key] = <<>>) =>
          ret.err = ErrNotExist /\ ret.val = <<>> /\ calls = <<>>
    /\ (ret.op = "Get" /\ ret.err = NoErr) => Len(ret.val) > 0
    /\ \A k \in Keys : GetResult(k).err = NoErr => Len(GetResult(k).val) > 0

\* Get(k) returned NotFound on a tombstone while the underlying transaction
\* holds a value for k.
C8_Witness ==
    /\ ret.op = "Get"
    /\ ret.err = ErrNotExist
    /\ ret.key \in DOMAIN buf
    /\ buf[ret.key] = <<>>
    /\ ret.key \in DOMAIN Data
    /\ Len(Data[ret.key]) > 0

\* C9: overlay shadowing.  After a Set(k, v) that the overlay accepted,
\* Get(k) is v whatever the underlying transaction holds for k; Get(k) keeps
\* returning the overlay's value for k without consulting the underlying
\* transaction.
C9_OverlayShadowing ==
    /\ (ret.op = "Set" /\ ret.err = NoErr) =>
          /\ ret.key \in DOMAIN buf /\ buf[ret.key] = ret.val
          /\ GetResult(ret.key) =
                [val |-> ret.val, err |-> NoErr, calls |-> <<>>]
    /\ \A k \in Keys :
          (k \in DOMAIN buf /\ buf[k] # <<>>) =>
             GetResult(k) = [val |-> buf[k], err |-> NoErr, calls |-> <<>>]
    /\ (ret.op = "Get" /\ ret.key \in DOMAIN buf /\ buf[ret.key] # <<>>) =>
          ret.val = buf[ret.key] /\ ret.err = NoErr /\ calls = <<>>

\* Get(k) returned the overlay's value while the underlying transaction
\* holds another value for k.
C9_Witness ==
    /\ ret.op = "Get"
    /\ ret.key \in DOMAIN buf
    /\ buf[ret.key] = <<2>>
    /\ ret.val = <<2>>
    /\ ret.key \in DOMAIN Data
    /\ Data[ret.key] = <<1>>

\* C10: Commit requires drained buffers.  A Commit that finds the overlay,
\* the mutation ledger or the dirty-operation log non-empty returns the
\* 'invalid transaction' error and calls neither Commit nor Rollback on the
\* underlying transaction, also when the fault marker is set: the only calls
\* it makes on the transaction are the queries Valid and StartTS of the
\* error log.
C10_CommitRequiresDrained ==
    [][(ret'.op = "Commit" /\ ~BuffersEmpty) =>
          /\ ret'.err = ErrInvalidTxn
          /\ \A i \in 1..Len(calls') : calls'[i].f \in {"Valid", "StartTS"}]_vars

\* Commit on a held transaction returned 'invalid transaction' after it had
\* queried the transaction for the error log, and called nothing else.
C10_Witness ==
    /\ ret.op = "Commit"
    /\ ret.err = ErrInvalidTxn
    /\ calls = <<Call("Valid", 0, <<>>, TRUE), Call("StartTS", 0, <<>>, TRUE)>>

\* The rows the ledger bin holds for table t in field f.
LedgerRows(bin, t, f) ==
    IF FindMutation(bin, t) = 0 THEN <<>> ELSE bin[FindMutation(bin, t)][f]
\* The rows staged for table t in field f.
StagedRows(t, f) == IF t \in DOMAIN mutations THEN mutations[t][f] ELSE <<>>
\* The calls on the row cache that apply the staged operation op: AddRow with
\* the handle and the row, DeleteRow with the handle, TruncateTable with the
\* table alone, and no call for any other kind.
AppliedOp(op) ==
    CASE op.kind = "DirtyTableAddRow" ->
            <<[f |-> "AddRow", tid |-> op.tid, handle |-> op.handle,
               row |-> op.row]>>
      [] op.kind = "DirtyTableDeleteRow" ->
            <<[f |-> "DeleteRow", tid |-> op.tid, handle |-> op.handle,
               row |-> <<>>]>>
      [] op.kind = "DirtyTableTruncate" ->
            <<[f |-> "TruncateTable", tid |-> op.tid, handle |-> 0,
               row |-> <<>>]>>
      [] OTHER -> <<>>

\* C11: exactly-once side effects.  A StmtCommit whose flush succeeded
\* appends to the row cache the staged dirty operations, each once and in
\* staging order, and appends to the session's replication ledger, per table
\* and field, the staged rows, each once, one ledger entry per table; every
\* other step (StmtRollback, a StmtCommit whose flush failed, Commit,
\* Rollback, ...) leaves the row cache and the ledger as they were; and a
\* StmtCommit right after a StmtCommit applies nothing again.
C11_ExactlyOnceSideEffects ==
    [][/\ (ret'.op = "StmtCommit" /\ ret'.err = NoErr) =>
             /\ Len(dirtyDB') = Len(dirtyDB) + Len(dirtyTableOP)
             /\ SubSeq(dirtyDB', 1, Len(dirtyDB)) = dirtyDB
             /\ \A i \in 1..Len(dirtyTableOP) :
                   <<dirtyDB'[Len(dirtyDB) + i]>> = AppliedOp(dirtyTableOP[i])
             /\ \A t \in Tables, f \in Fields :
                   LedgerRows(binlog', t, f) =
                      LedgerRows(binlog, t, f) \o StagedRows(t, f)
             /\ \A i, j \in 1..Len(binlog') :
                   binlog'[i].TableId = binlog'[j].TableId => i = j
       /\ ~(ret'.op = "StmtCommit" /\ ret'.err = NoErr) =>
             UNCHANGED <<binlog, dirtyDB>>
       /\ (ret.op = "StmtCommit" /\ ret'.op = "StmtCommit") =>
             UNCHANGED <<binlog, dirtyDB>>]_vars

\* A StmtCommit that flushed the overlay and after which the row cache has
\* received two different operations, the row's insertion first.
C11_Witness ==
    /\ ret.op = "StmtCommit"
    /\ ret.err = NoErr
    /\ calls # <<>>
    /\ Len(dirtyDB) = 2
    /\ dirtyDB[1].f = "AddRow"
    /\ dirtyDB[2].f = "DeleteRow"

\* C12: resolving a pending future is one-shot.  changePendingToValid called
\* in Pending clears the future reference before it waits and leaves it
\* cleared when the wait returns; when the wait succeeds the state is Valid
\* and holds the transaction the store began, with the capacity hint set on
\* it; when it fails (always so for a future flagged to fail) the call
\* returns the error and leaves no transaction and no future, so the state is
\* neither Valid nor Pending; and a changePendingToValid right after a
\* failed one returns 'future is not set' and waits for nothing.
C12_ResolveOneShot ==
    [][/\ (/\ pending
           /\ waiting = <<>>
           /\ ret'.op \in {"changePendingToValid", "future.wait"}) =>
             /\ ret'.op = "future.wait"
             /\ txnFuture' = <<>>
             /\ Transaction' = <<>>
             /\ waiting' # <<>>
             /\ waiting'[1].future = txnFuture[1]
       /\ waiting # <<>> =>
             /\ ret'.op = "changePendingToValid"
             /\ waiting' = <<>>
             /\ txnFuture' = <<>>
             /\ waiting[1].future.mockFail => ret'.err = ErrMockGetTS
             /\ ret'.err # ErrFutureNotSet
             /\ ret'.err = NoErr =>
                   /\ Valid'
                   /\ Transaction' \in {<<NewTxn(d)>> : d \in Snapshots}
                   /\ calls'[Len(calls')] =
                         Call("SetCap", waiting[1].txnCap, <<>>, TRUE)
             /\ ret'.err # NoErr =>
                   /\ Transaction' = <<>>
                   /\ ~Valid'
                   /\ ~pending'
       /\ (/\ ret.op = "changePendingToValid"
           /\ ret.err # NoErr
           /\ ret'.op \in {"changePendingToValid", "future.wait"}) =>
             /\ ret'.op = "changePendingToValid"
             /\ ret'.err = ErrFutureNotSet
             /\ calls' = <<>>
             /\ UNCHANGED <<Transaction, txnFuture, waiting>>]_vars

\* changePendingToValid failed on a future flagged to fail and left the state
\* machine without transaction and without future.
C12_Witness ==
    /\ ret.op = "changePendingToValid"
    /\ ret.err = ErrMockGetTS
    /\ calls = <<>>
    /\ Transaction = <<>>
    /\ txnFuture = <<>>

\* C13: changePendingToValid called when the state machine is not Pending
\* (Invalid, or holding a transaction and no future) returns the 'future is
\* not set' error, waits for nothing, and leaves the transaction reference,
\* the future reference, the overlay, the staged ledger and dirty operations,
\* the session's ledger and row cache and the fault marker unchanged.
C13_ResolveWhenNotPending ==
    [][(/\ ~pending
        /\ waiting = <<>>
        /\ ret'.op \in {"changePendingToValid", "future.wait"}) =>
          /\ ret'.op = "changePendingToValid"
          /\ ret'.err = ErrFutureNotSet
          /\ calls' = <<>>
          /\ UNCHANGED <<Transaction, txnFuture, buf, mutations, dirtyTableOP,
                         doNotCommit, binlog, dirtyDB, waiting>>]_vars

\* changePendingToValid returned 'future is not set' on a state machine that
\* holds a transaction, a written overlay, a staged ledger and a fault.
C13_Witness ==
    /\ ret.op = "changePendingToValid"
    /\ ret.err = ErrFutureNotSet
    /\ Valid
    /\ buf # EmptyMap
    /\ mutations # EmptyMap
    /\ doNotCommit # NoErr

\* C14, as claimed: the overlay is emptied on every transition into
\* Invalid.  After any operation that moves the state machine into Invalid
\* (Commit, Rollback, changeToInvalid, a failed changePendingToValid) the
\* overlay holds no entries.
C14_OverlayResetOnInvalid ==
    [][(\/ /\ ~Invalid
           /\ Invalid'
           /\ ret'.op \in {"Commit", "Rollback", "changeToInvalid"}
        \/ /\ waiting # <<>>
           /\ ret'.op = "changePendingToValid"
           /\ ret'.err # NoErr) =>
          buf' = EmptyMap]_vars

\* C14, amended: the overlay is emptied by the transitions into Invalid that
\* go through reset, which are Commit and Rollback; changeToInvalid and
\* changePendingToValid, failed or not, leave the overlay exactly as it was.
C14_OverlayResetByReset ==
    [][/\ ret'.op \in {"Commit", "Rollback"} =>
             Invalid' /\ buf' = EmptyMap
       /\ ret'.op \in {"changeToInvalid", "changePendingToValid",
                      "future.wait"} =>
             buf' = buf
       /\ ret'.op = "changeToInvalid" => Invalid']_vars

\* changeToInvalid moved the state machine into Invalid and the overlay
\* still holds an entry.
C14_Witness ==
    /\ ret.op = "changeToInvalid"
    /\ Invalid
    /\ buf # EmptyMap

\* C15: mutation merge order preservation.  mergeToMutation(dst, src) leaves
\* in each field of dst the rows dst had, in their positions, followed by
\* the rows of src, in their order, none dropped, reordered or deduplicated,
\* leaves dst's table id, and leaves src unchanged; so a successful
\* StmtCommit leaves in the session's ledger, per field of the table, the
\* rows merged by the earlier StmtCommits followed by the rows this
\* statement staged.
C15_MergeOrderPreserved ==
    [][/\ \A i \in 1..Len(binlog), t \in DOMAIN mutations :
             LET dst == binlog[i]
                 src == mutations[t]
                 m == mergeToMutation(dst, src)
             IN  /\ m.m1.TableId = dst.TableId
                 /\ \A f \in Fields :
                       /\ Len(m.m1[f]) = Len(dst[f]) + Len(src[f])
                       /\ \A j \in 1..Len(dst[f]) : m.m1[f][j] = dst[f][j]
                       /\ \A j \in 1..Len(src[f]) :
                             m.m1[f][Len(dst[f]) + j] = src[f][j]
                 /\ m.m2 = src
       /\ (ret'.op = "StmtCommit" /\ ret'.err = NoErr) =>
             \A t \in DOMAIN mutations, f \in Fields :
                LET old == LedgerRows(binlog, t, f)
                    new == LedgerRows(binlog', t, f)
                IN  /\ Len(new) = Len(old) + Len(mutations[t][f])
                    /\ \A j \in 1..Len(old) : new[j] = old[j]
                    /\ \A j \in 1..Len(mutations[t][f]) :
                          new[Len(old) + j] = mutations[t][f][j]]_vars

\* After successive StmtCommits the ledger holds inserted = [1, 2, 1] for
\* the table: three rows, the repeated one kept.
C15_Witness ==
    /\ ret.op = "StmtCommit"
    /\ ret.err = NoErr
    /\ Len(binlog) = 1
    /\ binlog[1].InsertedRows = <<1, 2, 1>>

\* The calls of cs, in order, that were made on the oracle future or the store.
WaitCalls(cs) ==
    SelectSeq(cs, LAMBDA c : c.f \in {"future.Wait", "store.BeginWithStartTS",
                                      "store.Begin"})

\* C16: transaction future resolution.  Resolving a future flagged to fail
\* returns the mock error without waiting for the timestamp and without
\* beginning a transaction.  Otherwise the timestamp is waited for once; when
\* that succeeds the store is asked, once, to begin with exactly the
\* timestamp obtained; when it fails the store's ordinary Begin is called
\* instead and the timestamp error is not returned; so the resolution fails
\* only when the future is flagged or the store's begin fails.
C16_FutureResolution ==
    [][(ret'.op = "changePendingToValid" /\ waiting # <<>>) =>
          LET w == WaitCalls(calls')
          IN  IF waiting[1].future.mockFail
              THEN /\ ret'.err = ErrMockGetTS
                   /\ w = <<>>
                   /\ Transaction' = <<>>
              ELSE /\ Len(w) = 2
                   /\ w[1].f = "future.Wait"
                   /\ IF w[1].ok
                      THEN w[2].f = "store.BeginWithStartTS"
                           /\ w[2].key = w[1].key
                      ELSE w[2].f = "store.Begin"
                   /\ ret'.err # ErrGetTS
                   /\ (ret'.err = NoErr) = w[2].ok
                   /\ ret'.err # NoErr => ret'.err = ErrBegin
                   /\ (Transaction' # <<>>) = w[2].ok]_vars

\* The timestamp wait failed, Begin was called instead and the state machine
\* adopted the transaction it began.
C16_Witness ==
    /\ ret.op = "changePendingToValid"
    /\ ret.err = NoErr
    /\ Len(calls) = 3
    /\ calls[1] = Call("future.Wait", 0, <<>>, FALSE)
    /\ calls[2] = Call("store.Begin", 0, <<>>, TRUE)
    /\ Valid

PhaseOps == {"changeInvalidToValid", "changeInvalidToPending",
             "changePendingToValid", "changeToInvalid", "Commit", "Rollback"}

\* C17: Set and Delete write only to the overlay.  TxnState.Set and
\* TxnState.Delete call nothing on the underlying transaction and leave it,
\* the phase, the staged and the session's ledger, the staged dirty
\* operations and the row cache and the fault marker unchanged; a Set or
\* Delete reaches the underlying transaction only
\* inside StmtCommit, and but for StmtCommit only the operations that replace
\* or drop the transaction reference change what the state machine holds.
C17_WritesOnlyToOverlay ==
    [][/\ ret'.op \in {"Set", "Delete"} =>
             /\ calls' = <<>>
             /\ UNCHANGED <<Transaction, txnFuture, mutations, dirtyTableOP,
                            doNotCommit, binlog, dirtyDB>>
       /\ (\E i \in 1..Len(calls') : calls'[i].f \in {"Set", "Delete"}) =>
             ret'.op = "StmtCommit"
       /\ ret'.op \notin (PhaseOps \cup {"StmtCommit"}) =>
             Transaction' = Transaction]_vars

\* A Set on a state machine that holds a transaction without a value under
\* the key, a fault, a staged mutation and a merged one: the transaction still
\* holds no value under the key.
C17_Witness ==
    /\ ret.op = "Set"
    /\ ret.err = NoErr
    /\ buf[ret.key] = <<1>>
    /\ Transaction # <<>>
    /\ ret.key \notin DOMAIN Data
    /\ doNotCommit # NoErr
    /\ mutations # EmptyMap
    /\ binlog # <<>>

\* C18: flush abort on first failure.  When a Set/Delete on the underlying
\* transaction fails inside StmtCommit, the calls made are, in ascending key
\* order, one successful call for each overlay key before the failing key
\* and then the failing call; the underlying transaction holds the overlay's
\* value for exactly the keys before the failing one and is as it was for
\* the failing key and every later key; the fault marker is the failing
\* call's error, and StmtCommit returns it.
C18_FlushAbortsOnFirstFailure ==
    [][(/\ ret'.op = "StmtCommit"
        /\ \/ IsFlushErr(ret'.err)
           \/ \E i \in 1..Len(calls') : ~calls'[i].ok) =>
          LET n == Len(calls')
              bad == calls'[n].key
          IN  /\ n > 0
              /\ ~calls'[n].ok
              /\ \A i \in 1..(n - 1) : calls'[i].ok
              /\ \A i, j \in 1..n : i < j => calls'[i].key < calls'[j].key
              /\ {calls'[i].key : i \in 1..n} = {k \in DOMAIN buf : k <= bad}
              /\ \A i \in 1..n :
                    calls'[i].f = IF Len(buf[calls'[i].key]) = 0
                                  THEN "Delete" ELSE "Set"
              /\ \A k \in Keys :
                    IF k \in DOMAIN buf /\ k < bad
                    THEN IF Len(buf[k]) = 0
                         THEN k \notin DOMAIN Data'
                         ELSE k \in DOMAIN Data' /\ Data'[k] = buf[k]
                    ELSE /\ (k \in DOMAIN Data') = (k \in DOMAIN Data)
                         /\ k \in DOMAIN Data => Data'[k] = Data[k]
              /\ ret'.err = ErrKvWrite(bad)
              /\ doNotCommit' = ret'.err]_vars

\* A StmtCommit that applied the first key's value, failed on the second key
\* and returned that key's error, which is now the fault marker.
C18_Witness ==
    /\ ret.op = "StmtCommit"
    /\ Len(calls) = 2
    /\ calls[1] = Call("Set", 1, <<2>>, TRUE)
    /\ ~calls[2].ok
    /\ calls[2].key = 2
    /\ Data[1] = <<2>>
    /\ ret.err = ErrKvWrite(2)
    /\ doNotCommit = ErrKvWrite(2)

\* C19, as claimed: no stale fault marker.  Whenever the state machine is
\* Invalid or Pending, the fault marker is nil.
C19_NoStaleFault ==
    (Invalid \/ pending) => doNotCommit = NoErr

\* C20, as claimed: every Commit on a Valid state machine terminates the
\* underlying transaction.  On each path through Commit (non-empty buffers,
\* fault marker set, normal) exactly one call, Commit or Rollback, is made on
\* the underlying transaction before the reference to it is dropped.
C20_CommitTerminatesTxn ==
    [][(ret'.op = "Commit" /\ Valid) =>
          /\ Len(calls') = 1
          /\ calls'[1].f \in {"Commit", "Rollback"}
          /\ Transaction' = <<>>]_vars

\* C20, amended: a Commit on a Valid state machine whose buffers are empty
\* makes exactly one call on the underlying transaction before it drops the
\* reference: Rollback when the fault marker is set, Commit otherwise.  A
\* Commit that finds the overlay, the ledger or the dirty-operation log
\* non-empty returns 'invalid transaction' and drops the reference without
\* calling Commit or Rollback: it only queries Valid and StartTS for the
\* error log.
C20_CommitTerminalCall ==
    [][(ret'.op = "Commit" /\ Valid) =>
          /\ Transaction' = <<>>
          /\ IF BuffersEmpty
             THEN /\ Len(calls') = 1
                  /\ calls'[1].f = IF doNotCommit # NoErr
                                   THEN "Rollback" ELSE "Commit"
             ELSE /\ \A i \in 1..Len(calls') :
                        calls'[i].f \in {"Valid", "StartTS"}
                  /\ ret'.err = ErrInvalidTxn]_vars

\* Commit returned 'invalid transaction' in a session whose ledger an earlier
\* StmtCommit had merged into: no reference is held and neither Commit nor
\* Rollback was called.
C20_Witness ==
    /\ ret.op = "Commit"
    /\ ret.err = ErrInvalidTxn
    /\ calls # <<>>
    /\ \A i \in 1..Len(calls) : calls[i].f \notin {"Commit", "Rollback"}
    /\ Transaction = <<>>
    /\ binlog # <<>>

====
